---- MODULE Spec2Model ----
(***************************************************************************)
(* A model of rainfuck: the compilation pipeline of src/parser.rs          *)
(* (lexing, run-length collapsing, bracket resolution, removal of a        *)
(* leading loop) and the execution engine of src/interp.rs.                *)
(*                                                                         *)
(* Conventions.                                                            *)
(*  - Rust indices are 0-based and kept 0-based in the state (ip, dp, the  *)
(*    index i of a loop); a TLA+ sequence s models a Vec, s[k + 1] being   *)
(*    the element at Rust index k.                                         *)
(*  - usize is modelled with UsizeBits bits.  Every usize operation that   *)
(*    can overflow is modelled with its checked / saturating / wrapping    *)
(*    meaning at that width.                                               *)
(*  - The tape mem: Vec<u8> is the record [len, nz]: len is mem.len() and  *)
(*    nz maps exactly the indices below len that hold a non-zero byte to   *)
(*    that byte (every other index below len holds 0).  The encoding is    *)
(*    canonical: two tapes are equal iff their records are equal.          *)
(***************************************************************************)
EXTENDS Integers, Sequences, FiniteSets, TLC

VARIABLES
    \* ---- parser::ops (src/parser.rs) ----
    code,        \* the source buffer, a sequence of bytes (one-character strings)
    irs,         \* Vec<Ir> of parser::ops
    pi,          \* the index i of the loop of parser::ops
    ppc,         \* where the caller stands: "collapse", "resolve", "done" in parser::ops,
                 \* "loaded" once it has built the interpreter, "off" when it has a program
    pres,        \* the value parser::ops returned
    \* ---- Interpreter (src/interp.rs) ----
    ops, ip, dp, mem, iobuf, input, output,
    cell_overflow_mode, ptr_overflow_mode, eof_mode, max_mem, max_io,
    reached_eof,
    res,         \* what eval returned: kind "Running" until it returns
    \* ---- the environment and the history of the run ----
    short_io,    \* whether the streams may transfer fewer bytes than asked
    fail_io,     \* whether a call on a stream may return an error
    in_calls,    \* the number of calls made on input.read
    zero_reads,  \* the number of those calls that returned 0
    last         \* the state in which the last executed instruction started

pvars == <<code, irs, pi, ppc, pres>>
cvars == <<ops, cell_overflow_mode, ptr_overflow_mode, eof_mode, max_mem, max_io, short_io, fail_io>>
ivars == <<ip, dp, mem, iobuf, input, output, reached_eof, res, in_calls, zero_reads, last>>
vars == <<pvars, cvars, ivars>>

(***************************************************************************)
(* Bounds of the model                                                     *)
(***************************************************************************)
\* the width of usize in the model
UsizeBits == 20
\* the longest source buffer handed to parser::ops
MaxCodeLen == 5
\* the longest input stream
MaxInput == 6
\* the longest source buffer made of brackets and + only
MaxBracketLen == 7

UsizeMax == 2^UsizeBits - 1

Min(a, b) == IF a <= b THEN a ELSE b
Max(a, b) == IF a >= b THEN a ELSE b
\* usize::saturating_sub
SatSub(a, b) == IF a >= b THEN a - b ELSE 0

(***************************************************************************)
(* src/syntax.rs                                                           *)
(***************************************************************************)
Token == {"Left", "Right", "Add", "Sub", "Read", "Write", "LBracket", "RBracket"}

IsSymbol(b) == b \in {"<", ">", "+", "-", ",", ".", "[", "]"}

TokenOf(b) ==
    CASE b = "<" -> "Left"
      [] b = ">" -> "Right"
      [] b = "+" -> "Add"
      [] b = "-" -> "Sub"
      [] b = "," -> "Read"
      [] b = "." -> "Write"
      [] b = "[" -> "LBracket"
      [] b = "]" -> "RBracket"

\* Tokens::next from position pos on, repeated to the end of the buffer: the
\* TokenSpans of the recognized bytes, in order, each with its offset.
RECURSIVE TokensFrom(_, _)
TokensFrom(c, pos) ==
    IF pos >= Len(c) THEN <<>>
    ELSE IF IsSymbol(c[pos + 1])
         THEN <<[token |-> TokenOf(c[pos + 1]), index |-> pos]>> \o TokensFrom(c, pos + 1)
         ELSE TokensFrom(c, pos + 1)

\* Tokens whose offsets count from 1
TokensOneBased(c) ==
    [k \in DOMAIN TokensFrom(c, 0) |-> [TokensFrom(c, 0)[k] EXCEPT !.index = @ + 1]]

Tokens(c) == TokensFrom(c, 0)

(***************************************************************************)
(* src/parser.rs                                                           *)
(***************************************************************************)
\* a collapse that takes ] for a symbol to be counted in runs
IsBracketOpen(t) == t = "LBracket"

IsBracket(t) == t \in {"LBracket", "RBracket"}

\* The length of the run of spans equal in token to ts[k + 1] that starts at
\* Rust index k (the inner while of collapse).
RECURSIVE RunLen(_, _, _)
RunLen(ts, k, t) ==
    IF k < Len(ts) /\ ts[k + 1].token = t THEN 1 + RunLen(ts, k + 1, t) ELSE 0

RECURSIVE CollapseFrom(_, _)
CollapseFrom(ts, k) ==
    IF k >= Len(ts) THEN <<>>
    ELSE LET t == ts[k + 1] IN
         IF IsBracket(t.token)
         THEN <<[token |-> t.token, index |-> t.index, n |-> 0]>> \o CollapseFrom(ts, k + 1)
         ELSE LET n == 1 + RunLen(ts, k + 1, t.token) IN
              <<[token |-> t.token, index |-> t.index, n |-> n]>> \o CollapseFrom(ts, k + n)

collapse(c) == CollapseFrom(Tokens(c), 0)

\* irs[k].n = v, k a Rust index
SetN(s, k, v) == [s EXCEPT ![k + 1].n = v]

\* calculate_jmp whose outer scan does not step over a nested loop it resolved
RECURSIVE CalcJmpLoopNoSkip(_, _, _)
CalcJmpLoopNoSkip(s, base, i) ==
    IF i >= Len(s) - base THEN [stepped |-> 0, irs |-> s]
    ELSE LET ir == s[base + i + 1] IN
         CASE ir.token = "RBracket" ->
                [stepped |-> i, irs |-> SetN(SetN(s, base + i, i), base, i)]
           [] ir.token = "LBracket" ->
                LET r == CalcJmpLoopNoSkip(s, base + i, 1) IN
                IF r.stepped = 0 THEN [stepped |-> 0, irs |-> r.irs]
                ELSE CalcJmpLoopNoSkip(r.irs, base, i + 1)
           [] OTHER -> CalcJmpLoopNoSkip(s, base, i + 1)

\* calculate_jmp(&mut irs[base..]) from its loop index i on: the value returned
\* and the Vec as the call leaves it.
RECURSIVE CalcJmpLoop(_, _, _)
CalcJmpLoop(s, base, i) ==
    IF i >= Len(s) - base THEN [stepped |-> 0, irs |-> s]
    ELSE LET ir == s[base + i + 1] IN
         CASE ir.token = "RBracket" ->
                [stepped |-> i, irs |-> SetN(SetN(s, base + i, i), base, i)]
           [] ir.token = "LBracket" ->
                LET r == CalcJmpLoop(s, base + i, 1) IN
                IF r.stepped = 0 THEN [stepped |-> 0, irs |-> r.irs]
                ELSE CalcJmpLoop(r.irs, base, i + r.stepped + 1)
           [] OTHER -> CalcJmpLoop(s, base, i + 1)

calculate_jmp(s, base) == CalcJmpLoop(s, base, 1)

\* parser::ops reporting an unmatched [ where the scan ended, at the last
\* instruction
OpsIterEndPos(s, i) ==
    LET ir == s[i + 1] IN
    CASE ir.token = "RBracket" /\ ir.n = 0 ->
           [irs |-> s, i |-> i, err |-> [kind |-> "UnexpectedBracket", pos |-> ir.index]]
      [] ir.token = "LBracket" /\ ir.n = 0 ->
           LET r == calculate_jmp(s, i) IN
           IF r.stepped = 0
           THEN [irs |-> r.irs, i |-> i,
                 err |-> [kind |-> "UnmatchedBracket", pos |-> s[Len(s)].index]]
           ELSE [irs |-> r.irs, i |-> i + r.stepped + 1, err |-> [kind |-> "None", pos |-> 0]]
      [] OTHER -> [irs |-> s, i |-> i + 1, err |-> [kind |-> "None", pos |-> 0]]

\* One iteration of the while loop of parser::ops at index i.
OpsIter(s, i) ==
    LET ir == s[i + 1] IN
    CASE ir.token = "RBracket" /\ ir.n = 0 ->
           [irs |-> s, i |-> i, err |-> [kind |-> "UnexpectedBracket", pos |-> ir.index]]
      [] ir.token = "LBracket" /\ ir.n = 0 ->
           LET r == calculate_jmp(s, i) IN
           IF r.stepped = 0
           THEN [irs |-> r.irs, i |-> i, err |-> [kind |-> "UnmatchedBracket", pos |-> ir.index]]
           ELSE [irs |-> r.irs, i |-> i + r.stepped + 1, err |-> [kind |-> "None", pos |-> 0]]
      [] OTHER -> [irs |-> s, i |-> i + 1, err |-> [kind |-> "None", pos |-> 0]]

\* a cutoff that leaves the ] of the leading loop in the program
CutoffKeepClose(s) == IF s[1].token = "LBracket" THEN s[1].n ELSE 0

\* The number of leading slots parser::ops drops.
Cutoff(s) == IF s[1].token = "LBracket" THEN s[1].n + 1 ELSE 0

\* The tail of parser::ops: skip(cutoff), map to Op, collect.  NonZeroUsize::new
\* of a zero count panics ("assertion failed").
OpsFinish(s) ==
    LET cutoff == Cutoff(s)
        kept == IF cutoff >= Len(s) THEN <<>> ELSE SubSeq(s, cutoff + 1, Len(s))
    IN  IF \E k \in 1..Len(kept) : kept[k].n = 0
        THEN [kind |-> "Panic", ops |-> <<>>, pos |-> 0]
        ELSE [kind |-> "Ok", pos |-> 0,
              ops |-> [k \in 1..Len(kept) |-> [t |-> kept[k].token, n |-> kept[k].n]]]

\* The while loop of parser::ops from index i on, and then its tail.
RECURSIVE OpsLoop(_, _)
OpsLoop(s, i) ==
    IF i >= Len(s) THEN OpsFinish(s)
    ELSE LET r == OpsIter(s, i) IN
         IF r.err.kind # "None"
         THEN [kind |-> r.err.kind, ops |-> <<>>, pos |-> r.err.pos]
         ELSE OpsLoop(r.irs, r.i)

\* parser::ops from the collapsed instructions on.
OpsOfIrs(s) ==
    IF s = <<>> THEN [kind |-> "Ok", ops |-> <<>>, pos |-> 0] ELSE OpsLoop(s, 0)

\* parser::ops
ParserOps(c) == OpsOfIrs(collapse(c))

(***************************************************************************)
(* src/interp.rs: the tape                                                 *)
(***************************************************************************)
\* vec![0; 32 << 10], and the least effective max_mem
InitMem == 32768
\* the least effective max_io
MinIo == 4
\* the length of the batch of Token::Write
WriteBatch == 16

None == -1

\* a tape whose cell 0 starts at 1
NewMemOne == [len |-> InitMem, nz |-> [j \in {0} |-> 1]]

NewMem == [len |-> InitMem, nz |-> <<>>]

\* mem.get(i): the byte at i, None beyond the length
MemGet(m, i) ==
    IF i < m.len THEN (IF i \in DOMAIN m.nz THEN m.nz[i] ELSE 0) ELSE None

\* mem[i] = v, i < mem.len()
MemSet(m, i, v) ==
    [m EXCEPT !.nz =
        IF v = 0 THEN [j \in (DOMAIN m.nz) \ {i} |-> m.nz[j]]
        ELSE [j \in (DOMAIN m.nz) \cup {i} |-> IF j = i THEN v ELSE m.nz[j]]]

\* ensure_mem that grows the tape to max_mem at once
ensure_mem_all(d, m, mm) ==
    IF d >= mm
    THEN [err |-> [kind |-> "Oom", a |-> mm, b |-> d], mem |-> m]
    ELSE [err |-> [kind |-> "None", a |-> 0, b |-> 0],
          mem |-> [m EXCEPT !.len = IF d >= m.len THEN mm ELSE m.len]]

\* Interpreter::ensure_mem with self.dp = d, self.mem = m, self.max_mem = mm
ensure_mem(d, m, mm) ==
    IF d >= mm
    THEN [err |-> [kind |-> "Oom", a |-> mm, b |-> d], mem |-> m]
    ELSE LET need == SatSub(Min(d + 1, mm), m.len) IN
         [err |-> [kind |-> "None", a |-> 0, b |-> 0], mem |-> [m EXCEPT !.len = m.len + need]]

(***************************************************************************)
(* src/interp.rs: the cell and pointer arithmetic                          *)
(***************************************************************************)
\* add whose Saturate sum is computed in 8 bits
add_u8(v, times, mode) ==
    CASE mode = "Wrap" -> [err |-> "None", v |-> (v + (times % 256)) % 256]
      [] mode = "Saturate" -> [err |-> "None", v |-> Min(255, (v + times) % 256)]
      [] mode = "Check" ->
           IF times > 255 THEN [err |-> "AddOverflow", v |-> v]
           ELSE IF v + times > 255 THEN [err |-> "AddOverflow", v |-> v]
           ELSE [err |-> "None", v |-> v + times]

\* Interpreter::add on a cell holding v: the new byte, or the error
add(v, times, mode) ==
    CASE mode = "Wrap" -> [err |-> "None", v |-> (v + (times % 256)) % 256]
      [] mode = "Saturate" -> [err |-> "None", v |-> Min(255, Min(UsizeMax, v + times))]
      [] mode = "Check" ->
           IF times > 255 THEN [err |-> "AddOverflow", v |-> v]
           ELSE IF v + times > 255 THEN [err |-> "AddOverflow", v |-> v]
           ELSE [err |-> "None", v |-> v + times]

\* sub whose Saturate arm lacks the test times >= 255
sub_u8(v, times, mode) ==
    CASE mode = "Wrap" -> [err |-> "None", v |-> ((v - times) % (UsizeMax + 1)) % 256]
      [] mode = "Check" ->
           IF v < times THEN [err |-> "SubOverflow", v |-> v]
           ELSE IF v - times > 255 THEN [err |-> "SubOverflow", v |-> v]
           ELSE [err |-> "None", v |-> v - times]
      [] mode = "Saturate" ->
           IF (times % 256) >= v
           THEN [err |-> "None", v |-> 0]
           ELSE [err |-> "None", v |-> v - (times % 256)]

\* Interpreter::sub on a cell holding v: the new byte, or the error
sub(v, times, mode) ==
    CASE mode = "Wrap" -> [err |-> "None", v |-> ((v - times) % (UsizeMax + 1)) % 256]
      [] mode = "Check" ->
           IF v < times THEN [err |-> "SubOverflow", v |-> v]
           ELSE IF v - times > 255 THEN [err |-> "SubOverflow", v |-> v]
           ELSE [err |-> "None", v |-> v - times]
      [] mode = "Saturate" ->
           IF times >= 255 \/ (times % 256) >= v
           THEN [err |-> "None", v |-> 0]
           ELSE [err |-> "None", v |-> v - (times % 256)]

\* What a usize subtraction a - b gives when b > a: overflow checks on (a
\* panic) or off (the wrapped difference), as the build decides.
SubOutcomes(a, b) ==
    IF a >= b THEN {[panic |-> FALSE, v |-> a - b]}
    ELSE {[panic |-> TRUE, v |-> 0], [panic |-> FALSE, v |-> (a - b) % (UsizeMax + 1)]}

\* Overflow::Wrap of Interpreter::left: the outcomes for self.dp = d.  (For the
\* max_mem values of the model times % mm + mm stays below UsizeMax.)
LeftWrap(d, times, mm) ==
    IF d >= times THEN {[kind |-> "None", dp |-> d - times]}
    ELSE LET n == (times % mm) + mm IN
         { IF o.panic THEN [kind |-> "Panic", dp |-> d]
           ELSE [kind |-> "None", dp |-> IF o.v = mm THEN 0 ELSE o.v] : o \in SubOutcomes(n, d) }

\* left whose Saturate arm wraps and whose Check arm clamps
left_swapped(d, times, mode, mm) ==
    CASE mode = "Saturate" -> {[kind |-> "None", dp |-> (d - times) % (UsizeMax + 1)]}
      [] mode = "Wrap" -> LeftWrap(d, times, mm)
      [] mode = "Check" -> {[kind |-> "None", dp |-> SatSub(d, times)]}

\* Interpreter::left: the outcomes for self.dp = d
left(d, times, mode, mm) ==
    CASE mode = "Saturate" -> {[kind |-> "None", dp |-> SatSub(d, times)]}
      [] mode = "Wrap" -> LeftWrap(d, times, mm)
      [] mode = "Check" ->
           IF d >= times THEN {[kind |-> "None", dp |-> d - times]}
           ELSE {[kind |-> "LeftDpOverflow", dp |-> d]}

\* Right that honours the pointer policy Saturate at the largest usize
right_saturating(d, times) ==
    [kind |-> "None", dp |-> Min(UsizeMax, d + times)]

\* Token::Right of eval: self.dp.checked_add(op.n)
right(d, times) ==
    IF d + times > UsizeMax THEN [kind |-> "RightDpOverflow", dp |-> d]
    ELSE [kind |-> "None", dp |-> d + times]

(***************************************************************************)
(* src/interp.rs: the streams                                              *)
(***************************************************************************)
Rep(b, k) == [j \in 1..k |-> b]

\* input.read(&mut buf) with avail bytes left in the stream: the numbers of
\* bytes the call may return (0 only at the end of the stream).
ReadCounts(buflen, avail, short) ==
    IF avail = 0 \/ buflen = 0 THEN {0}
    ELSE IF short THEN 1..Min(buflen, avail) ELSE {Min(buflen, avail)}

\* buf after input.read stored the first k bytes of inp in it
Fill(buf, inp, k) == [j \in 1..Len(buf) |-> IF j <= k THEN inp[j] ELSE buf[j]]

\* The match on self.eof_mode of Interpreter::read
EofResult(mode, noop_val) ==
    CASE mode = "Noop" -> [kind |-> "None", val |-> noop_val]
      [] mode = "Set0" -> [kind |-> "None", val |-> 0]
      [] mode = "Terminate" -> [kind |-> "Io", val |-> noop_val]

\* The while loop of Interpreter::read.  s = [iobuf, input, in_calls,
\* zero_reads], env = [short, fail] tells what the streams may do; the set of
\* outcomes [kind, val, reached_eof, s].  input.read(..)? returns the
\* stream's error as it is.
RECURSIVE ReadLoop(_, _, _, _, _)
ReadLoop(s, remaining_bytes, last_read, mode, env) ==
    IF remaining_bytes = 0
    THEN {[kind |-> "None", val |-> last_read, reached_eof |-> FALSE, s |-> s]}
    ELSE (IF env.fail
          THEN {[kind |-> "Io", val |-> last_read, reached_eof |-> FALSE,
                 s |-> [s EXCEPT !.in_calls = @ + 1]]}
          ELSE {})
         \cup UNION {
        IF n = 0
        THEN LET e == EofResult(mode, last_read) IN
             {[kind |-> e.kind, val |-> e.val, reached_eof |-> TRUE,
               s |-> [s EXCEPT !.in_calls = @ + 1, !.zero_reads = @ + 1]]}
        ELSE LET s2 == [s EXCEPT !.iobuf = Fill(s.iobuf, s.input, n),
                                 !.input = SubSeq(s.input, n + 1, Len(s.input)),
                                 !.in_calls = @ + 1]
             IN  UNION { IF o.panic
                         THEN {[kind |-> "Panic", val |-> s2.iobuf[n], reached_eof |-> FALSE, s |-> s2]}
                         ELSE ReadLoop(s2, o.v, s2.iobuf[n], mode, env)
                       : o \in SubOutcomes(remaining_bytes, n) }
      : n \in ReadCounts(Len(s.iobuf), Len(s.input), env.short) }

\* read that does not test self.reached_eof
read_no_flag(s, times, value, eof, mio, mode, env) ==
    LET need == SatSub(Min(mio, times), Len(s.iobuf))
        s1 == [s EXCEPT !.iobuf = @ \o Rep(0, need)]
    IN  ReadLoop(s1, times, value, mode, env)

\* Interpreter::read(times) with *self.value() = value
read(s, times, value, eof, mio, mode, env) ==
    LET need == SatSub(Min(mio, times), Len(s.iobuf))
        s1 == [s EXCEPT !.iobuf = @ \o Rep(0, need)]
    IN  IF eof
        THEN LET e == EofResult(mode, value) IN
             {[kind |-> e.kind, val |-> e.val, reached_eof |-> TRUE, s |-> s1]}
        ELSE ReadLoop(s1, times, value, mode, env)

\* output.write(buf) of len bytes: the numbers of bytes the sink may accept
WriteCounts(len, short) == IF short THEN 0..len ELSE {len}

\* One output.write(buf) of len bytes on a sink holding out: the sink accepts
\* k bytes, or the call returns an error (.map_err(Error::Io)?).
WriteCall(out, val, len, env) ==
    { [kind |-> "None", out |-> out \o Rep(val, k)] : k \in WriteCounts(len, env.short) }
    \cup (IF env.fail THEN {[kind |-> "Io", out |-> out]} ELSE {})

\* The for loop of Token::Write: chunks calls of output.write(&bytes), left
\* at the first error
RECURSIVE WriteChunks(_, _, _, _)
WriteChunks(out, val, chunks, env) ==
    IF chunks = 0 THEN {[kind |-> "None", out |-> out]}
    ELSE UNION { IF w.kind # "None" THEN {w}
                 ELSE WriteChunks(w.out, val, chunks - 1, env)
                 : w \in WriteCall(out, val, WriteBatch, env) }

\* Token::Write of eval: the outcomes [kind, out], out being what the sink
\* holds afterwards
write(out, val, n, env) ==
    LET chunks == n \div WriteBatch
        rem == n % WriteBatch
    IN  UNION { IF w.kind = "None" /\ rem > 0 THEN WriteCall(w.out, val, rem, env) ELSE {w}
                : w \in WriteChunks(out, val, chunks, env) }

(***************************************************************************)
(* src/interp.rs: Interpreter::eval, one action per arm of the match       *)
(***************************************************************************)
Err(k, a, b) == [kind |-> k, a |-> a, b |-> b]

Op == ops[ip + 1]

\* what the streams of this run may do
Env == [short |-> short_io, fail |-> fail_io]

\* an eval that goes on to the next instruction after a failure
FetchOn(t) == res.kind # "Ok" /\ res.kind # "NotStarted" /\ ip < Len(ops) /\ Op.t = t

\* eval is about to execute an instruction with token t
Fetch(t) == res.kind = "Running" /\ ip < Len(ops) /\ Op.t = t

Snapshot ==
    [valid |-> TRUE, op |-> Op, ip |-> ip, dp |-> dp, mem |-> mem, iobuf |-> iobuf,
     input |-> input, output |-> output, reached_eof |-> reached_eof,
     in_calls |-> in_calls, zero_reads |-> zero_reads]

NoSnapshot ==
    [valid |-> FALSE, op |-> [t |-> "Add", n |-> 1], ip |-> 0, dp |-> 0, mem |-> NewMem,
     iobuf |-> <<>>, input |-> <<>>, output |-> <<>>, reached_eof |-> FALSE,
     in_calls |-> 0, zero_reads |-> 0]

\* mem.get(dp).unwrap_or(&0)
CellOr0(m, d) == IF MemGet(m, d) = None THEN 0 ELSE MemGet(m, d)

EvalAdd ==
    /\ Fetch("Add")
    /\ LET e == ensure_mem(dp, mem, max_mem) IN
       IF e.err.kind # "None"
       THEN res' = e.err /\ UNCHANGED <<ip, mem>>
       ELSE LET v == MemGet(e.mem, dp)
                r == add(v, Op.n, cell_overflow_mode)
            IN  IF r.err # "None"
                THEN res' = Err(r.err, v, Op.n) /\ mem' = e.mem /\ UNCHANGED ip
                ELSE mem' = MemSet(e.mem, dp, r.v) /\ ip' = ip + 1 /\ UNCHANGED res
    /\ last' = Snapshot
    /\ UNCHANGED <<pvars, cvars, dp, iobuf, input, output, reached_eof, in_calls, zero_reads>>

EvalSub ==
    /\ Fetch("Sub")
    /\ LET e == ensure_mem(dp, mem, max_mem) IN
       IF e.err.kind # "None"
       THEN res' = e.err /\ UNCHANGED <<ip, mem>>
       ELSE LET v == MemGet(e.mem, dp)
                r == sub(v, Op.n, cell_overflow_mode)
            IN  IF r.err # "None"
                THEN res' = Err(r.err, v, Op.n) /\ mem' = e.mem /\ UNCHANGED ip
                ELSE mem' = MemSet(e.mem, dp, r.v) /\ ip' = ip + 1 /\ UNCHANGED res
    /\ last' = Snapshot
    /\ UNCHANGED <<pvars, cvars, dp, iobuf, input, output, reached_eof, in_calls, zero_reads>>

EvalLeft ==
    /\ Fetch("Left")
    /\ \E o \in left(dp, Op.n, ptr_overflow_mode, max_mem) :
         IF o.kind # "None"
         THEN res' = Err(o.kind, dp, Op.n) /\ UNCHANGED <<ip, dp>>
         ELSE dp' = o.dp /\ ip' = ip + 1 /\ UNCHANGED res
    /\ last' = Snapshot
    /\ UNCHANGED <<pvars, cvars, mem, iobuf, input, output, reached_eof, in_calls, zero_reads>>

EvalRight ==
    /\ Fetch("Right")
    /\ LET o == right(dp, Op.n) IN
         IF o.kind # "None"
         THEN res' = Err(o.kind, dp, Op.n) /\ UNCHANGED <<ip, dp>>
         ELSE dp' = o.dp /\ ip' = ip + 1 /\ UNCHANGED res
    /\ last' = Snapshot
    /\ UNCHANGED <<pvars, cvars, mem, iobuf, input, output, reached_eof, in_calls, zero_reads>>

EvalRead ==
    /\ Fetch("Read")
    /\ LET e == ensure_mem(dp, mem, max_mem) IN
       IF e.err.kind # "None"
       THEN /\ res' = e.err
            /\ UNCHANGED <<ip, mem, iobuf, input, reached_eof, in_calls, zero_reads>>
       ELSE \E o \in read([iobuf |-> iobuf, input |-> input, in_calls |-> in_calls,
                           zero_reads |-> zero_reads],
                          Op.n, MemGet(e.mem, dp), reached_eof, max_io, eof_mode, Env) :
              /\ iobuf' = o.s.iobuf
              /\ input' = o.s.input
              /\ in_calls' = o.s.in_calls
              /\ zero_reads' = o.s.zero_reads
              /\ reached_eof' = o.reached_eof
              /\ IF o.kind # "None"
                 THEN res' = Err(o.kind, 0, 0) /\ mem' = e.mem /\ UNCHANGED ip
                 ELSE mem' = MemSet(e.mem, dp, o.val) /\ ip' = ip + 1 /\ UNCHANGED res
    /\ last' = Snapshot
    /\ UNCHANGED <<pvars, cvars, dp, output>>

EvalWrite ==
    /\ Fetch("Write")
    /\ \E w \in write(output, CellOr0(mem, dp), Op.n, Env) :
         /\ output' = w.out
         /\ IF w.kind # "None"
            THEN res' = Err(w.kind, 0, 0) /\ UNCHANGED ip
            ELSE ip' = ip + 1 /\ UNCHANGED res
    /\ last' = Snapshot
    /\ UNCHANGED <<pvars, cvars, dp, mem, iobuf, input, reached_eof, in_calls, zero_reads>>

\* LBracket that jumps to the LoopClose and does not step over it
lbracket_on_close(i, n, cell) == IF cell = None \/ cell = 0 THEN i + n ELSE i + 1

\* Token::LBracket: the slot eval executes next
lbracket(i, n, cell) == IF cell = None \/ cell = 0 THEN i + n + 1 ELSE i + 1

\* RBracket that jumps back to the slot before the LoopOpen
rbracket_before_open(i, n, cell) ==
    IF cell # None /\ cell # 0
    THEN { IF o.panic THEN [panic |-> TRUE, ip |-> i]
           ELSE [panic |-> FALSE, ip |-> o.v] : o \in SubOutcomes(i, n + 1) }
    ELSE {[panic |-> FALSE, ip |-> i + 1]}

\* Token::RBracket: the outcomes of self.ip -= op.n (when taken) and self.ip += 1
rbracket(i, n, cell) ==
    IF cell # None /\ cell # 0
    THEN { IF o.panic THEN [panic |-> TRUE, ip |-> i]
           ELSE [panic |-> FALSE, ip |-> o.v + 1] : o \in SubOutcomes(i, n) }
    ELSE {[panic |-> FALSE, ip |-> i + 1]}

EvalLBracket ==
    /\ Fetch("LBracket")
    /\ ip' = lbracket(ip, Op.n, MemGet(mem, dp))
    /\ last' = Snapshot
    /\ UNCHANGED <<pvars, cvars, dp, mem, iobuf, input, output, reached_eof, res, in_calls, zero_reads>>

EvalRBracket ==
    /\ Fetch("RBracket")
    /\ \E o \in rbracket(ip, Op.n, MemGet(mem, dp)) :
         IF o.panic THEN res' = Err("Panic", 0, 0) /\ UNCHANGED ip
         ELSE ip' = o.ip /\ UNCHANGED res
    /\ last' = Snapshot
    /\ UNCHANGED <<pvars, cvars, dp, mem, iobuf, input, output, reached_eof, in_calls, zero_reads>>

\* the while condition of eval fails: Ok(())
EvalReturn ==
    /\ res.kind = "Running"
    /\ ip >= Len(ops)
    /\ res' = Err("Ok", 0, 0)
    /\ UNCHANGED <<pvars, cvars, ip, dp, mem, iobuf, input, output, reached_eof, in_calls, zero_reads, last>>

(***************************************************************************)
(* src/interp.rs: Interpreter::eval as a function of the interpreter.      *)
(* s = [ip, dp, mem, iobuf, input, output, reached_eof, res, in_calls,     *)
(* zero_reads] is what the run changes, cfg = [cell, ptr, eof, max_mem,    *)
(* max_io, env] what it does not.                                          *)
(***************************************************************************)
Cfg ==
    [cell |-> cell_overflow_mode, ptr |-> ptr_overflow_mode, eof |-> eof_mode,
     max_mem |-> max_mem, max_io |-> max_io, env |-> Env]

Cur ==
    [ip |-> ip, dp |-> dp, mem |-> mem, iobuf |-> iobuf, input |-> input,
     output |-> output, reached_eof |-> reached_eof, res |-> res,
     in_calls |-> in_calls, zero_reads |-> zero_reads]

\* Token::Add and Token::Sub
StepCell(op, cfg, s) ==
    LET e == ensure_mem(s.dp, s.mem, cfg.max_mem) IN
    IF e.err.kind # "None" THEN {[s EXCEPT !.res = e.err]}
    ELSE LET v == MemGet(e.mem, s.dp)
             r == IF op.t = "Add" THEN add(v, op.n, cfg.cell) ELSE sub(v, op.n, cfg.cell)
         IN  IF r.err # "None"
             THEN {[s EXCEPT !.res = Err(r.err, v, op.n), !.mem = e.mem]}
             ELSE {[s EXCEPT !.mem = MemSet(e.mem, s.dp, r.v), !.ip = @ + 1]}

\* Token::Left and Token::Right, outs being the outcomes of left or right
StepPtr(outs, op, s) ==
    { IF o.kind # "None" THEN [s EXCEPT !.res = Err(o.kind, s.dp, op.n)]
      ELSE [s EXCEPT !.dp = o.dp, !.ip = @ + 1] : o \in outs }

\* Token::Read
StepRead(op, cfg, s) ==
    LET e == ensure_mem(s.dp, s.mem, cfg.max_mem) IN
    IF e.err.kind # "None" THEN {[s EXCEPT !.res = e.err]}
    ELSE { LET t == [s EXCEPT !.iobuf = o.s.iobuf, !.input = o.s.input,
                              !.in_calls = o.s.in_calls, !.zero_reads = o.s.zero_reads,
                              !.reached_eof = o.reached_eof]
           IN  IF o.kind # "None"
               THEN [t EXCEPT !.res = Err(o.kind, 0, 0), !.mem = e.mem]
               ELSE [t EXCEPT !.mem = MemSet(e.mem, s.dp, o.val), !.ip = @ + 1]
           : o \in read([iobuf |-> s.iobuf, input |-> s.input, in_calls |-> s.in_calls,
                         zero_reads |-> s.zero_reads],
                        op.n, MemGet(e.mem, s.dp), s.reached_eof, cfg.max_io, cfg.eof,
                        cfg.env) }

\* Token::Write
StepWrite(op, cfg, s) ==
    { IF w.kind # "None" THEN [s EXCEPT !.output = w.out, !.res = Err(w.kind, 0, 0)]
      ELSE [s EXCEPT !.output = w.out, !.ip = @ + 1]
      : w \in write(s.output, CellOr0(s.mem, s.dp), op.n, cfg.env) }

\* Token::RBracket
StepRBracket(op, s) ==
    { IF o.panic THEN [s EXCEPT !.res = Err("Panic", 0, 0)] ELSE [s EXCEPT !.ip = o.ip]
      : o \in rbracket(s.ip, op.n, MemGet(s.mem, s.dp)) }

\* One turn of the while loop of eval on program o (or its end): the states
\* it may lead to.
EvalStep(o, cfg, s) ==
    IF s.ip >= Len(o) THEN {[s EXCEPT !.res = Err("Ok", 0, 0)]}
    ELSE LET op == o[s.ip + 1] IN
         CASE op.t = "Add" -> StepCell(op, cfg, s)
           [] op.t = "Sub" -> StepCell(op, cfg, s)
           [] op.t = "Left" -> StepPtr(left(s.dp, op.n, cfg.ptr, cfg.max_mem), op, s)
           [] op.t = "Right" -> StepPtr({right(s.dp, op.n)}, op, s)
           [] op.t = "Read" -> StepRead(op, cfg, s)
           [] op.t = "Write" -> StepWrite(op, cfg, s)
           [] op.t = "LBracket" ->
                {[s EXCEPT !.ip = lbracket(s.ip, op.n, MemGet(s.mem, s.dp))]}
           [] op.t = "RBracket" -> StepRBracket(op, s)

\* Interpreter::eval on program o from state s: the states it may have
\* returned in, or be in after steps turns of its loop
RECURSIVE eval(_, _, _, _)
eval(o, cfg, s, steps) ==
    IF s.res.kind # "Running" \/ steps = 0 THEN {s}
    ELSE UNION { eval(o, cfg, t, steps - 1) : t \in EvalStep(o, cfg, s) }

(***************************************************************************)
(* The states after construction                                           *)
(***************************************************************************)
Overflow == {"Wrap", "Saturate", "Check"}
EofMode == {"Noop", "Set0", "Terminate"}

\* a max_mem argument above the initial tape length, and a max_io argument
\* above the least chunk size
MaxMemArg == 32771
MaxIoArg == 5

\* parser::ops has not been called
ParserOff ==
    /\ code = <<>>
    /\ irs = <<>>
    /\ pi = 0
    /\ ppc = "off"
    /\ pres = [kind |-> "None", ops |-> <<>>, pos |-> 0]

\* Interpreter::new
New(o, inp, cell, ptr, eof, mm, mio, short, fail) ==
    /\ dp = 0
    /\ ip = 0
    /\ mem = NewMem
    /\ ops = o
    /\ input = inp
    /\ output = <<>>
    /\ iobuf = <<>>
    /\ cell_overflow_mode = cell
    /\ ptr_overflow_mode = ptr
    /\ max_io = Max(mio, MinIo)
    /\ max_mem = Max(mm, InitMem)
    /\ eof_mode = eof
    /\ reached_eof = FALSE
    /\ res = Err("Running", 0, 0)
    /\ short_io = short
    /\ fail_io = fail
    /\ in_calls = 0
    /\ zero_reads = 0
    /\ last = NoSnapshot

\* The collapsed instructions of a source, given as <<token, count>> pairs
\* (a bracket with count 0), and the program parser::ops compiles from them.
IrsOf(p) == [k \in 1..Len(p) |-> [token |-> p[k][1], index |-> k - 1, n |-> p[k][2]]]
Compiled(p) == OpsOfIrs(IrsOf(p)).ops

\* an input stream of len bytes, all different and none of them 0
InputOf(len) == [j \in 1..len |-> j]

AddCounts == {1, 44, 254, 255, 256, 300}
SubCounts == {1, 44, 254, 255, 256, 300}

CellPrograms ==
    { <<<<"Add", a>>, <<"Sub", b>>, <<"Add", c>>>> : a \in AddCounts, b \in SubCounts, c \in {1, 255} }
    \cup { <<<<"Sub", b>>, <<"Add", a>>>> : a \in AddCounts, b \in SubCounts }

RightCounts == {1, 3, InitMem - 1, InitMem, InitMem + 2, 50000}
LeftCounts == {1, 2, 3, 4, InitMem, InitMem + 1, MaxMemArg, 70000}

PtrPrograms ==
    { <<<<"Right", r>>, <<"Left", l>>, <<"Add", 1>>>> : r \in RightCounts, l \in LeftCounts }
    \cup { <<<<"Left", l>>, <<"Add", 1>>>> : l \in LeftCounts }
    \cup { <<<<"Right", 3>>, <<"Left", 1>>, <<"Right", k>>>> : k \in (UsizeMax - 3)..UsizeMax }
    \cup { <<<<"Right", UsizeMax>>, <<"Left", 1>>, <<"Right", k>>>> : k \in 1..2 }

GrowPrograms ==
    { <<<<"Right", r>>, x, <<"Write", 1>>, <<"Left", 1>>, y>> :
        r \in (InitMem - 1)..(MaxMemArg + 1),
        x \in {<<"Add", 1>>, <<"Sub", 1>>, <<"Read", 2>>},
        y \in {<<"Add", 2>>, <<"Read", 1>>} }

ReadRuns == {1, 2, 3, 5}

ReadPrograms ==
    { <<<<"Read", a>>, <<"Write", 1>>, <<"Read", b>>>> : a \in ReadRuns, b \in ReadRuns }
    \cup { <<<<"Add", 7>>, <<"Read", a>>, <<"Right", 1>>, <<"Read", b>>>> : a \in ReadRuns, b \in ReadRuns }
    \cup { <<<<"Read", 1>>, <<"Write", 1>>, <<"Read", 1>>, <<"Write", 1>>, <<"Read", 6>>>> }
    \cup { <<<<"Read", 1>>, <<"Right", InitMem>>, <<"Read", 2>>>> }

LoopPrograms ==
    {   \* +[-]
        <<<<"Add", 1>>, <<"LBracket", 0>>, <<"Sub", 1>>, <<"RBracket", 0>>>>,
        \* [+]+.
        <<<<"LBracket", 0>>, <<"Add", 1>>, <<"RBracket", 0>>, <<"Add", 1>>, <<"Write", 1>>>>,
        \* ++[>+++<-]>.
        <<<<"Add", 2>>, <<"LBracket", 0>>, <<"Right", 1>>, <<"Add", 3>>, <<"Left", 1>>,
          <<"Sub", 1>>, <<"RBracket", 0>>, <<"Right", 1>>, <<"Write", 1>>>>,
        \* +[[-]+[-]]-
        <<<<"Add", 1>>, <<"LBracket", 0>>, <<"LBracket", 0>>, <<"Sub", 1>>, <<"RBracket", 0>>,
          <<"Add", 1>>, <<"LBracket", 0>>, <<"Sub", 1>>, <<"RBracket", 0>>, <<"RBracket", 0>>,
          <<"Sub", 1>>>>,
        \* >[[+]]>[]+[>]
        <<<<"Right", 1>>, <<"LBracket", 0>>, <<"LBracket", 0>>, <<"Add", 1>>, <<"RBracket", 0>>,
          <<"RBracket", 0>>, <<"Right", 1>>, <<"LBracket", 0>>, <<"RBracket", 0>>, <<"Add", 1>>,
          <<"LBracket", 0>>, <<"Right", 1>>, <<"RBracket", 0>>>>,
        \* ,[.,]
        <<<<"Read", 1>>, <<"LBracket", 0>>, <<"Write", 1>>, <<"Read", 1>>, <<"RBracket", 0>>>>,
        \* + [ 32768 times > ] .   the loop is left at a position beyond the tape
        <<<<"Add", 1>>, <<"LBracket", 0>>, <<"Right", InitMem>>, <<"RBracket", 0>>, <<"Write", 17>>>>,
        \* 32768 times > [ + ] ++   the loop is skipped at a position beyond the tape
        <<<<"Right", InitMem>>, <<"LBracket", 0>>, <<"Add", 1>>, <<"RBracket", 0>>, <<"Add", 2>>>>,
        \* +++[>+<-]>[<->-]<
        <<<<"Add", 3>>, <<"LBracket", 0>>, <<"Right", 1>>, <<"Add", 1>>, <<"Left", 1>>,
          <<"Sub", 1>>, <<"RBracket", 0>>, <<"Right", 1>>, <<"LBracket", 0>>, <<"Left", 1>>,
          <<"Sub", 1>>, <<"Right", 1>>, <<"Sub", 1>>, <<"RBracket", 0>>, <<"Left", 1>> >>
    }

\* ,[.>+<-]<,  every token, run under every configuration
CrossPrograms ==
    { <<<<"Read", 1>>, <<"LBracket", 0>>, <<"Write", 1>>, <<"Right", 1>>, <<"Add", 1>>,
        <<"Left", 1>>, <<"Sub", 1>>, <<"RBracket", 0>>, <<"Left", 1>>, <<"Read", 1>>>> }

\* ,,.(17 times),.  and  +.+.(33 times),,,,,  run on streams that may fail
FailPrograms ==
    { <<<<"Read", 2>>, <<"Write", 17>>, <<"Read", 1>>, <<"Write", 1>>>>,
      <<<<"Add", 1>>, <<"Write", 1>>, <<"Add", 1>>, <<"Write", 33>>, <<"Read", 5>>>> }

InitCell ==
    \E p \in CellPrograms, cell \in Overflow :
        New(Compiled(p), <<>>, cell, "Check", "Noop", 0, 0, FALSE, FALSE)

InitPtr ==
    \E p \in PtrPrograms, ptr \in Overflow, mm \in {0, MaxMemArg} :
        New(Compiled(p), <<>>, "Wrap", ptr, "Noop", mm, 0, FALSE, FALSE)

InitGrow ==
    \E p \in GrowPrograms, cell \in {"Wrap", "Check"}, eof \in EofMode,
       mm \in {0, MaxMemArg}, len \in 0..1 :
        New(Compiled(p), InputOf(len), cell, "Check", eof, mm, 0, FALSE, FALSE)

InitRead ==
    \E p \in ReadPrograms, eof \in EofMode, mio \in {0, MaxIoArg},
       len \in 0..MaxInput, short \in BOOLEAN :
        New(Compiled(p), InputOf(len), "Wrap", "Check", eof, 0, mio, short, FALSE)

\* (under Noop the program ,[.,] never ends once the input has)
InitLoop ==
    \E p \in LoopPrograms, eof \in {"Set0", "Terminate"}, len \in 0..2, short \in BOOLEAN :
        New(Compiled(p), InputOf(len), "Wrap", "Check", eof, 0, 0, short, FALSE)

InitCross ==
    \E p \in CrossPrograms, cell \in Overflow, ptr \in Overflow, eof \in EofMode,
       mm \in {0, MaxMemArg}, mio \in {0, MaxIoArg}, len \in 0..2, short \in BOOLEAN :
        New(Compiled(p), InputOf(len), cell, ptr, eof, mm, mio, short, FALSE)

InitFail ==
    \E p \in FailPrograms, eof \in EofMode, len \in 0..3 :
        New(Compiled(p), InputOf(len), "Wrap", "Check", eof, 0, 0, FALSE, TRUE)

Init ==
    /\ ParserOff
    /\ \/ InitCell
       \/ InitPtr
       \/ InitGrow
       \/ InitRead
       \/ InitLoop
       \/ InitCross
       \/ InitFail

Next ==
    \/ EvalAdd
    \/ EvalSub
    \/ EvalLeft
    \/ EvalRight
    \/ EvalRead
    \/ EvalWrite
    \/ EvalLBracket
    \/ EvalRBracket
    \/ EvalReturn

Spec == Init /\ [][Next]_vars

(***************************************************************************)
(* parser::ops, step by step                                               *)
(***************************************************************************)
\* let mut irs = collapse(code); if irs.is_empty() { return Ok(Vec::new()) }
ParseCollapse ==
    /\ ppc = "collapse"
    /\ irs' = collapse(code)
    /\ pi' = 0
    /\ IF collapse(code) = <<>>
       THEN ppc' = "done" /\ pres' = [kind |-> "Ok", ops |-> <<>>, pos |-> 0]
       ELSE ppc' = "resolve" /\ UNCHANGED pres
    /\ UNCHANGED <<code, cvars, ivars>>

\* one iteration of while i < irs.len()
ParseResolve ==
    /\ ppc = "resolve"
    /\ pi < Len(irs)
    /\ LET r == OpsIter(irs, pi) IN
       /\ irs' = r.irs
       /\ pi' = r.i
       /\ IF r.err.kind # "None"
          THEN ppc' = "done" /\ pres' = [kind |-> r.err.kind, ops |-> <<>>, pos |-> r.err.pos]
          ELSE UNCHANGED <<ppc, pres>>
    /\ UNCHANGED <<code, cvars, ivars>>

\* the loop has ended: the cutoff and the conversion to Op
ParseFinish ==
    /\ ppc = "resolve"
    /\ pi >= Len(irs)
    /\ pres' = OpsFinish(irs)
    /\ ppc' = "done"
    /\ UNCHANGED <<code, irs, pi, cvars, ivars>>

\* every sequence over S of length at most n
SeqsUpTo(S, n) == UNION { [1..k -> S] : k \in 0..n }

Sources ==
    SeqsUpTo({"[", "]", "+", "-", " "}, MaxCodeLen)
    \cup SeqsUpTo({"[", "]", "+"}, MaxBracketLen)

InitParse ==
    /\ code \in Sources
    /\ irs = <<>>
    /\ pi = 0
    /\ ppc = "collapse"
    /\ pres = [kind |-> "None", ops |-> <<>>, pos |-> 0]
    /\ New(<<>>, <<>>, "Wrap", "Check", "Noop", 0, 0, FALSE, FALSE)

NextParse ==
    \/ ParseCollapse
    \/ ParseResolve
    \/ ParseFinish

SpecParse == InitParse /\ [][NextParse]_vars

(***************************************************************************)
(* A source compiled and run: parser::ops(script), Interpreter::new, eval  *)
(***************************************************************************)
\* the longest source of RunSources, and the number of turns of the loop of
\* eval a run is followed for
MaxRunLen == 4
MaxSteps == 60

\* every source of brackets, + and - up to MaxRunLen bytes
RunSources == SeqsUpTo({"[", "]", "+", "-"}, MaxRunLen)

\* sources that start with a loop (or do not)
RunPrefixes ==
    { <<>>,
      <<"[", "]">>,
      <<"[", "-", "]">>,
      <<"[", "[", "+", "]", ">", "]">>,
      <<"[", " ", ",", ".", "]">>,
      <<"[", "+", "[", "-", "]", "]", " ">> }

\* and go on with one of these
RunBodies ==
    { <<>>,
      <<"-">>,
      <<"<", "+">>,
      <<",", ".">>,
      <<"+", "[", "-", "]">>,
      <<">", ",", "<", ".", ">", ".">>,
      <<"[", ".", "]", "+", ".">>,
      <<",", "[", ".", ",", "]">>,
      <<"+", "+", "[", ">", "+", "+", "+", "<", "-", "]", ">", ".">> }

\* what the caller holds before it compiles: the script, the streams and the
\* arguments it will give to Interpreter::new
Script(c, inp, cell, ptr, eof, mm, mio, short, fail) ==
    /\ code = c
    /\ irs = <<>>
    /\ pi = 0
    /\ ppc = "collapse"
    /\ pres = [kind |-> "None", ops |-> <<>>, pos |-> 0]
    /\ ops = <<>>
    /\ dp = 0
    /\ ip = 0
    /\ mem = NewMem
    /\ input = inp
    /\ output = <<>>
    /\ iobuf = <<>>
    /\ cell_overflow_mode = cell
    /\ ptr_overflow_mode = ptr
    /\ eof_mode = eof
    /\ max_mem = mm
    /\ max_io = mio
    /\ reached_eof = FALSE
    /\ res = Err("NotStarted", 0, 0)
    /\ short_io = short
    /\ fail_io = fail
    /\ in_calls = 0
    /\ zero_reads = 0
    /\ last = NoSnapshot

InitRun ==
    \/ \E c \in RunSources, cell \in {"Wrap", "Check"} :
          Script(c, <<>>, cell, "Check", "Noop", 0, 0, FALSE, FALSE)
    \/ \E a \in RunPrefixes, b \in RunBodies, cell \in {"Wrap", "Check"},
          ptr \in {"Wrap", "Check"}, eof \in {"Set0", "Terminate"}, len \in 0..2,
          short \in BOOLEAN :
          Script(a \o b, InputOf(len), cell, ptr, eof, 0, 0, short, FALSE)

\* Interpreter::new(parser::ops(script).unwrap(), ..)
Load ==
    /\ ppc = "done"
    /\ pres.kind = "Ok"
    /\ ppc' = "loaded"
    /\ ops' = pres.ops
    /\ dp' = 0
    /\ ip' = 0
    /\ mem' = NewMem
    /\ iobuf' = <<>>
    /\ max_io' = Max(max_io, MinIo)
    /\ max_mem' = Max(max_mem, InitMem)
    /\ reached_eof' = FALSE
    /\ res' = Err("Running", 0, 0)
    /\ in_calls' = 0
    /\ zero_reads' = 0
    /\ last' = NoSnapshot
    /\ UNCHANGED <<code, irs, pi, pres, input, output, cell_overflow_mode, ptr_overflow_mode,
                   eof_mode, short_io, fail_io>>

NextRun ==
    \/ ParseCollapse
    \/ ParseResolve
    \/ ParseFinish
    \/ Load
    \/ EvalAdd
    \/ EvalSub
    \/ EvalLeft
    \/ EvalRight
    \/ EvalRead
    \/ EvalWrite
    \/ EvalLBracket
    \/ EvalRBracket
    \/ EvalReturn

SpecRun == InitRun /\ [][NextRun]_vars

(***************************************************************************)
(* C1: bracket resolution                                                  *)
(***************************************************************************)
\* the number of bytes b among c[1..k]
RECURSIVE CountByte(_, _, _)
CountByte(c, b, k) ==
    IF k = 0 THEN 0 ELSE (IF c[k] = b THEN 1 ELSE 0) + CountByte(c, b, k - 1)

\* the nesting depth after the first k bytes of c
SrcDepth(c, k) == CountByte(c, "[", k) - CountByte(c, "]", k)

Balanced(c) ==
    /\ \A k \in 1..Len(c) : SrcDepth(c, k) >= 0
    /\ SrcDepth(c, Len(c)) = 0

\* the nesting depth of the slots i..j of a program
RECURSIVE OpDepth(_, _, _)
OpDepth(o, i, j) ==
    IF j < i THEN 0
    ELSE OpDepth(o, i, j - 1)
         + (IF o[j].t = "LBracket" THEN 1 ELSE IF o[j].t = "RBracket" THEN -1 ELSE 0)

\* the slot of the ] that properly closes the [ at slot i (0: there is none)
MatchOf(o, i) ==
    LET js == { j \in (i + 1)..Len(o) : OpDepth(o, i, j) = 0 } IN
    IF js = {} THEN 0 ELSE CHOOSE j \in js : \A k \in js : j <= k

WellPaired(o) ==
    \A i \in 1..Len(o) :
        /\ o[i].t = "LBracket" =>
             /\ o[i].n >= 1
             /\ i + o[i].n <= Len(o)
             /\ o[i + o[i].n].t = "RBracket"
             /\ o[i + o[i].n].n = o[i].n
             /\ i + o[i].n = MatchOf(o, i)
        /\ o[i].t = "RBracket" =>
             Cardinality({ k \in 1..Len(o) : o[k].t = "LBracket" /\ k + o[k].n = i }) = 1

\* C1: when parser::ops has returned on a source with balanced brackets, it
\* returned a program, and in it every LoopOpen at slot i carries a count
\* n >= 1 with a LoopClose carrying n at slot i + n, which is its partner
\* under proper nesting, and every LoopClose is the partner of exactly one
\* LoopOpen; also when a leading loop was dropped.
C1_Pairing ==
    (ppc = "done" /\ Balanced(code)) => (pres.kind = "Ok" /\ WellPaired(pres.ops))

\* a source with a leading loop that was dropped, whose program holds a loop
\* nested in a loop
C1_Witness ==
    /\ ppc = "done"
    /\ Balanced(code)
    /\ pres.kind = "Ok"
    /\ Len(pres.ops) < Len(irs)
    /\ \E i \in 1..Len(pres.ops) :
         /\ pres.ops[i].t = "LBracket"
         /\ pres.ops[i].n >= 3
         /\ pres.ops[i + 1].t = "LBracket"

(***************************************************************************)
(* The claims about Interpreter::eval.  last is the state in which the     *)
(* instruction executed last started; eval has not failed while Alive.     *)
(***************************************************************************)
Alive == res.kind \in {"Running", "Ok"}

\* the instruction executed last had token t
Did(t) == last.valid /\ last.op.t = t

\* the cell the last instruction started on (0 beyond the tape)
LastCell == CellOr0(last.mem, last.dp)

\* the last instruction's tape access succeeded: ensure_mem returned Ok
Accessed == last.dp < max_mem

(***************************************************************************)
(* C2: the jumps of LoopOpen and LoopClose                                 *)
(***************************************************************************)
\* C2: after LoopOpen at slot i with count n, the next slot is i + n + 1 when
\* the cell is 0 or beyond the tape (slot i + n being the LoopClose), and
\* i + 1 otherwise; after LoopClose at slot j with count n, the next slot is
\* j - n + 1 when the cell is non-zero (slot j - n being the LoopOpen), and
\* j + 1 otherwise.
C2_Jumps ==
    LET c == MemGet(last.mem, last.dp)
        n == last.op.n
        zero == c = None \/ c = 0
    IN  /\ Did("LBracket") =>
             /\ Alive
             /\ ops[last.ip + n + 1].t = "RBracket"
             /\ ip = IF zero THEN last.ip + n + 1 ELSE last.ip + 1
        /\ Did("RBracket") =>
             /\ Alive
             /\ ops[last.ip - n + 1].t = "LBracket"
             /\ ip = IF ~zero THEN last.ip - n + 1 ELSE last.ip + 1

\* a LoopClose with a body of more than one slot jumped back on a non-zero cell
C2_Witness ==
    /\ Did("RBracket")
    /\ last.op.n >= 2
    /\ MemGet(last.mem, last.dp) > 0
    /\ ip = last.ip - last.op.n + 1

(***************************************************************************)
(* C3: a Read of count n and n Reads of count 1                            *)
(***************************************************************************)
\* n Reads of count 1 on a cell holding v, with inp left in the stream and the
\* EOF flag eof
RECURSIVE SingleReads(_, _, _, _, _)
SingleReads(n, v, inp, eof, mode) ==
    IF n = 0 THEN [val |-> v, input |-> inp, eof |-> eof, fail |-> FALSE]
    ELSE IF eof \/ inp = <<>>
         THEN IF mode = "Terminate"
              THEN [val |-> v, input |-> inp, eof |-> TRUE, fail |-> TRUE]
              ELSE SingleReads(n - 1, IF mode = "Set0" THEN 0 ELSE v, inp, TRUE, mode)
         ELSE SingleReads(n - 1, Head(inp), Tail(inp), eof, mode)

\* C3: a Read of count n leaves the stream, the EOF flag, the cell and the
\* result of the run as n Reads of count 1 would: it consumes min(n, bytes
\* left) bytes, the cell receives the last one, and at the end of the stream
\* the flag is set and the EOF policy decides.
C3_ReadAsSingles ==
    (Did("Read") /\ Accessed) =>
        LET r == SingleReads(last.op.n, LastCell, last.input, last.reached_eof, eof_mode) IN
        /\ input = r.input
        /\ reached_eof = r.eof
        /\ IF r.fail THEN res.kind = "Io"
           ELSE Alive /\ MemGet(mem, dp) = r.val

(***************************************************************************)
(* C4: the EOF flag                                                        *)
(***************************************************************************)
\* the EOF flag is set exactly when input.read has returned 0, no call
\* follows that one, and the flag is never cleared
EofSticky ==
    /\ reached_eof <=> zero_reads > 0
    /\ zero_reads <= 1
    /\ (last.valid /\ last.reached_eof) => reached_eof

\* C4: the EOF flag starts false, is set exactly when input.read has returned
\* 0 and is never cleared; a Read that starts with the flag set makes no call
\* on the stream, and under Noop leaves the current cell as it was, under
\* Set0 leaves it 0, and under Terminate fails with the end-of-input stream
\* error.  (With the data pointer below the maximum tape size the run goes
\* on to the next slot under Noop and Set0.)
C4_EofRead ==
    /\ EofSticky
    /\ (Did("Read") /\ last.reached_eof) =>
         /\ in_calls = last.in_calls
         /\ input = last.input
         /\ eof_mode = "Noop" => CellOr0(mem, dp) = LastCell
         /\ eof_mode = "Set0" => CellOr0(mem, dp) = 0
         /\ eof_mode = "Terminate" => res.kind = "Io"
         /\ (Accessed /\ eof_mode # "Terminate") => Alive /\ ip = last.ip + 1

\* a Read under Noop that started with the flag set on a non-zero cell
C4_Witness ==
    /\ Did("Read")
    /\ last.reached_eof
    /\ eof_mode = "Noop"
    /\ LastCell > 0
    /\ MemGet(mem, dp) = LastCell
    /\ in_calls = last.in_calls
    /\ ip = last.ip + 1

(***************************************************************************)
(* C5, C6: Increment and Decrement                                         *)
(***************************************************************************)
\* C5: Increment of count n on a cell holding v gives (v + n) mod 256 under
\* Wrap, min(255, v + n) under Saturate, and under Check v + n when that is
\* at most 255 and n <= 255, AddOverflow with the cell still v otherwise.
C5_Increment ==
    (Did("Add") /\ Accessed) =>
        LET v == LastCell
            n == last.op.n
        IN  /\ cell_overflow_mode = "Wrap" =>
                 Alive /\ MemGet(mem, dp) = (v + n) % 256
            /\ cell_overflow_mode = "Saturate" =>
                 Alive /\ MemGet(mem, dp) = (IF v + n > 255 THEN 255 ELSE v + n)
            /\ cell_overflow_mode = "Check" =>
                 IF n <= 255 /\ v + n <= 255
                 THEN Alive /\ MemGet(mem, dp) = v + n
                 ELSE res = Err("AddOverflow", v, n) /\ MemGet(mem, dp) = v

\* 300 times + on a zero cell under Wrap gave 44
C5_Witness ==
    /\ Did("Add")
    /\ cell_overflow_mode = "Wrap"
    /\ last.op.n = 300
    /\ LastCell = 0
    /\ MemGet(mem, dp) = 44

\* C6: Decrement of count n on a cell holding v gives (v - n) mod 256 under
\* Wrap, max(0, v - n) under Saturate, and under Check v - n when n <= v,
\* SubOverflow with the cell still v otherwise.
C6_Decrement ==
    (Did("Sub") /\ Accessed) =>
        LET v == LastCell
            n == last.op.n
        IN  /\ cell_overflow_mode = "Wrap" =>
                 Alive /\ MemGet(mem, dp) = (v - n) % 256
            /\ cell_overflow_mode = "Saturate" =>
                 Alive /\ MemGet(mem, dp) = (IF v - n < 0 THEN 0 ELSE v - n)
            /\ cell_overflow_mode = "Check" =>
                 IF n <= v
                 THEN Alive /\ MemGet(mem, dp) = v - n
                 ELSE res = Err("SubOverflow", v, n) /\ MemGet(mem, dp) = v

\* 254 times - on a cell holding 255 under Saturate gave 1
C6_Witness ==
    /\ Did("Sub")
    /\ cell_overflow_mode = "Saturate"
    /\ last.op.n = 254
    /\ LastCell = 255
    /\ MemGet(mem, dp) = 1

(***************************************************************************)
(* C7, C8, C9: the data pointer                                            *)
(***************************************************************************)
\* C7: under pointer policy Wrap, MoveLeft of count n from dp < M gives
\* (dp - n) mod M, which is below M.
C7_LeftWrap ==
    (Did("Left") /\ ptr_overflow_mode = "Wrap" /\ last.dp < max_mem) =>
        /\ Alive
        /\ dp = (last.dp - last.op.n) % max_mem
        /\ dp < max_mem

\* C8: MoveLeft of count n gives max(0, dp - n) under Saturate and never
\* fails; under Check it gives dp - n when n <= dp and otherwise fails with
\* the leftward pointer error (from = dp, amount = n), the data pointer
\* unchanged.  MoveLeft never changes the tape.
C8_LeftSaturateCheck ==
    Did("Left") =>
        LET n == last.op.n IN
        /\ mem = last.mem
        /\ ptr_overflow_mode = "Saturate" =>
             Alive /\ dp = (IF last.dp - n < 0 THEN 0 ELSE last.dp - n)
        /\ ptr_overflow_mode = "Check" =>
             IF n <= last.dp
             THEN Alive /\ dp = last.dp - n
             ELSE res = Err("LeftDpOverflow", last.dp, n) /\ dp = last.dp

\* under Check a MoveLeft of more than the data pointer failed
C8_Witness ==
    /\ Did("Left")
    /\ ptr_overflow_mode = "Check"
    /\ last.dp > 0
    /\ last.op.n > last.dp
    /\ res.kind = "LeftDpOverflow"

\* C9: MoveRight of count n gives dp + n under every pointer policy, also
\* beyond the maximum tape size; it fails only when dp + n exceeds the
\* largest usize, with the rightward pointer error (from = dp, amount = n)
\* and the data pointer unchanged.
C9_Right ==
    Did("Right") =>
        LET n == last.op.n IN
        IF last.dp + n <= UsizeMax
        THEN Alive /\ dp = last.dp + n
        ELSE res = Err("RightDpOverflow", last.dp, n) /\ dp = last.dp

\* under Wrap a MoveRight took the data pointer beyond the maximum tape size
C9_Witness ==
    /\ Did("Right")
    /\ ptr_overflow_mode = "Wrap"
    /\ last.dp < max_mem
    /\ dp > max_mem
    /\ Alive

(***************************************************************************)
(* C10: the tape                                                           *)
(***************************************************************************)
Mutating == last.valid /\ last.op.t \in {"Add", "Sub", "Read"}

\* C10: InitMem <= L <= M.  A mutating access with dp < M and dp >= L makes
\* L = dp + 1, every cell below dp keeping its value and the new ones below
\* dp being 0; with dp < L it keeps L; with dp >= M it fails with OutOfMemory
\* (have = M, want = dp) and leaves the tape as it was.  No other
\* instruction changes the tape, and one reads a position beyond L as 0.
C10_Tape ==
    /\ InitMem <= mem.len
    /\ mem.len <= max_mem
    /\ max_mem >= InitMem
    /\ \A k \in DOMAIN mem.nz : k < mem.len
    /\ Mutating =>
         /\ (last.dp < max_mem /\ last.dp >= last.mem.len) =>
              /\ mem.len = last.dp + 1
              /\ \A k \in DOMAIN mem.nz : k # dp => (k \in DOMAIN last.mem.nz /\ mem.nz[k] = last.mem.nz[k])
              /\ \A k \in DOMAIN last.mem.nz : k # dp => k \in DOMAIN mem.nz
         /\ (last.dp < last.mem.len) => mem.len = last.mem.len
         /\ (last.dp >= max_mem) => res = Err("Oom", max_mem, last.dp) /\ mem = last.mem
         /\ res.kind = "Oom" => last.dp >= max_mem
    /\ (last.valid /\ ~Mutating) => mem = last.mem /\ res.kind # "Oom"
    /\ Did("Write") =>
         (last.dp >= last.mem.len =>
            \A k \in (Len(last.output) + 1)..Len(output) : output[k] = 0)

\* a mutating access beyond the initial tape grew it to exactly dp + 1
C10_Witness ==
    /\ Mutating
    /\ last.mem.len = InitMem
    /\ last.dp > InitMem
    /\ mem.len = last.dp + 1
    /\ mem.len < max_mem
    /\ Alive

(***************************************************************************)
(* C11: Write                                                              *)
(***************************************************************************)
\* C11: when a Write of count n has returned without an error, the sink holds
\* what it held before followed by exactly n copies of the byte of the
\* current cell (0 at a position beyond the tape), whatever n is against the
\* batch of 16 and whatever the sink, as long as it keeps to the contract of
\* io::Write.
C11_WriteCopies ==
    (Did("Write") /\ Alive) => output = last.output \o Rep(LastCell, last.op.n)

(***************************************************************************)
(* C12, C13: the two syntax errors.  pres.pos is the offset parser::ops    *)
(* hands to Error::unmatched_bracket / Error::unexpected_bracket.          *)
(***************************************************************************)
\* the [ at byte p of c (p counted from 1) is never closed
Unclosed(c, p) ==
    /\ c[p] = "["
    /\ \A k \in p..Len(c) : SrcDepth(c, k) >= SrcDepth(c, p)

\* the leftmost [ of c that is never closed (0: every [ is closed)
FirstUnclosed(c) ==
    LET ps == { p \in 1..Len(c) : Unclosed(c, p) } IN
    IF ps = {} THEN 0 ELSE CHOOSE p \in ps : \A q \in ps : p <= q

\* the first ] of c met while no [ is open (0: there is none)
FirstUnexpected(c) ==
    LET ps == { p \in 1..Len(c) : c[p] = "]" /\ SrcDepth(c, p) < 0 } IN
    IF ps = {} THEN 0 ELSE CHOOSE p \in ps : \A q \in ps : p <= q

\* no ] occurs at depth zero before byte p
NoneUnexpectedBefore(c, p) == \A k \in 1..(p - 1) : SrcDepth(c, k) >= 0

\* C12: when some [ of the source is never closed and no ] occurs at depth
\* zero before the leftmost such [, parser::ops returns no program and fails
\* with UnmatchedBracket at the offset of that leftmost unclosed [, whatever
\* loops, closed or not, are nested in it.
C12_Unmatched ==
    LET u == FirstUnclosed(code) IN
    (ppc = "done" /\ u # 0 /\ NoneUnexpectedBefore(code, u)) =>
        /\ pres.kind = "UnmatchedBracket"
        /\ pres.pos = u - 1
        /\ pres.ops = <<>>

\* the unclosed [ is reported behind a closed loop, with a closed loop and
\* another unclosed [ nested in it
C12_Witness ==
    LET u == FirstUnclosed(code) IN
    /\ ppc = "done"
    /\ u >= 3
    /\ NoneUnexpectedBefore(code, u)
    /\ pres.kind = "UnmatchedBracket"
    /\ pres.pos = u - 1
    /\ \E p \in 1..(u - 1) : code[p] = "]"
    /\ \E p \in (u + 1)..Len(code) : code[p] = "]"
    /\ \E p \in (u + 1)..Len(code) : Unclosed(code, p)

\* C13: when scanning the source some ] is met while no [ is open,
\* parser::ops returns no program and fails with UnexpectedBracket at the
\* offset of the first such ], whatever follows it and whatever balanced
\* loops precede it; and UnexpectedBracket is reported for no other ].
C13_Unexpected ==
    LET x == FirstUnexpected(code) IN
    /\ (ppc = "done" /\ x # 0) =>
          /\ pres.kind = "UnexpectedBracket"
          /\ pres.pos = x - 1
          /\ pres.ops = <<>>
    /\ (ppc = "done" /\ pres.kind = "UnexpectedBracket") => x # 0

\* the reported ] follows a balanced loop and is followed by a [ that is
\* never closed
C13_Witness ==
    LET x == FirstUnexpected(code) IN
    /\ ppc = "done"
    /\ x >= 3
    /\ pres.kind = "UnexpectedBracket"
    /\ pres.pos = x - 1
    /\ \E p \in 1..(x - 1) : code[p] = "["
    /\ \E p \in (x + 1)..Len(code) : Unclosed(code, p)

(***************************************************************************)
(* C14: the leading loop is dropped                                        *)
(***************************************************************************)
\* the instructions parser::ops holds once every bracket is resolved, as a
\* program
Resolved == [k \in 1..Len(irs) |-> [t |-> irs[k].token, n |-> irs[k].n]]

\* the number of slots a leading loop of program o takes, brackets included
\* (0: o does not start with a loop)
LeadingLoop(o) == IF o # <<>> /\ o[1].t = "LBracket" THEN MatchOf(o, 1) ELSE 0

\* C14: the program parser::ops returns is the resolved instruction list
\* without its leading loop (the [ at slot 0, its body and the ] that closes
\* it), the instructions behind it unchanged in symbol, count and order and
\* none of them when the loop is the whole program; a list that does not
\* start with [ is returned whole.
C14_LeadingLoopDropped ==
    (ppc = "done" /\ pres.kind = "Ok") =>
        pres.ops = SubSeq(Resolved, LeadingLoop(Resolved) + 1, Len(Resolved))

\* a leading loop with a loop nested in it was dropped, and a loop is left
C14_Witness ==
    /\ ppc = "done"
    /\ pres.kind = "Ok"
    /\ LeadingLoop(Resolved) >= 4
    /\ Resolved[2].t = "LBracket"
    /\ Len(pres.ops) = Len(Resolved) - LeadingLoop(Resolved)
    /\ \E k \in 1..Len(pres.ops) : pres.ops[k].t = "LBracket"

(***************************************************************************)
(* C15: dropping the leading loop does not change a run                    *)
(***************************************************************************)
\* what a run shows of the states in S: the result, the sink, what is left of
\* the input, the tape and the data pointer
Observed(S) ==
    { [res |-> s.res, output |-> s.output, input |-> s.input, mem |-> s.mem, dp |-> s.dp]
      : s \in S }

\* the interpreter has been built and has executed nothing
Fresh == ppc = "loaded" /\ res.kind = "Running" /\ ip = 0 /\ ~last.valid

\* C15: from the freshly built interpreter, eval on the program parser::ops
\* returned and eval on the whole resolved list, leading loop kept, show the
\* same: the same results (Ok or the same error), with the same bytes in the
\* sink, the same input left, the same tape and the same data pointer; the
\* whole list takes one turn more, the jump over the loop.
C15_SameBehaviour ==
    Fresh =>
        \/ ops = Resolved
        \/ Observed(eval(ops, Cfg, Cur, MaxSteps))
             = Observed(eval(Resolved, Cfg, Cur, MaxSteps + 1))

\* a leading loop was dropped from a program that reads, writes and loops,
\* and whose run returns Ok with bytes in the sink
C15_Witness ==
    /\ Fresh
    /\ Len(ops) < Len(Resolved)
    /\ \E k \in 1..Len(ops) : ops[k].t = "Read"
    /\ \E k \in 1..Len(ops) : ops[k].t = "LBracket"
    /\ \E s \in eval(ops, Cfg, Cur, MaxSteps) : s.res.kind = "Ok" /\ Len(s.output) >= 2

(***************************************************************************)
(* C16: a failure ends the run                                             *)
(***************************************************************************)
\* eval has returned one of the errors of interp::Error
Failed ==
    res.kind \in {"Oom", "AddOverflow", "SubOverflow", "LeftDpOverflow", "RightDpOverflow", "Io"}

\* C16: once eval has returned an error, it is the instruction started last
\* that failed and ip still points at it, what the sink held when that
\* instruction started is still there, and no step follows that changes the
\* result, the sink, the input, the tape, the data pointer or the
\* instruction pointer.
C16_FailureIsFinal ==
    /\ [](Failed =>
            /\ last.valid
            /\ ip = last.ip
            /\ Len(output) >= Len(last.output)
            /\ SubSeq(output, 1, Len(last.output)) = last.output)
    /\ [][Failed => UNCHANGED <<res, output, input, mem, dp, ip, iobuf, reached_eof, in_calls, last>>]_vars

\* a Write has failed in its second call on the sink: the 16 bytes of the
\* first call are in the sink, behind the bytes of an earlier Write
C16_Witness ==
    /\ Failed
    /\ res.kind = "Io"
    /\ Did("Write")
    /\ last.output # <<>>
    /\ Len(output) = Len(last.output) + WriteBatch

(***************************************************************************)
(* C17: collapse                                                           *)
(***************************************************************************)
\* the positions (from 1) of the recognized symbols of c, in order
SymbolPositions(c) ==
    SelectSeq([p \in 1..Len(c) |-> p], LAMBDA p : IsSymbol(c[p]))

\* the number of symbols instruction ir stands for
Width(ir) == IF ir.token \in {"LBracket", "RBracket"} THEN 1 ELSE ir.n

\* the number of symbols the first k instructions of s stand for
RECURSIVE WidthSum(_, _)
WidthSum(s, k) == IF k = 0 THEN 0 ELSE WidthSum(s, k - 1) + Width(s[k])

\* s is the run-length form of the symbols of c
IsCollapseOf(s, c) ==
    LET sp == SymbolPositions(c) IN
    /\ WidthSum(s, Len(s)) = Len(sp)
    /\ \A k \in 1..Len(s) :
         /\ Width(s[k]) >= 1
         /\ \A j \in 1..Width(s[k]) : TokenOf(c[sp[WidthSum(s, k - 1) + j]]) = s[k].token
         /\ s[k].index = sp[WidthSum(s, k - 1) + 1] - 1
    /\ \A k \in 1..(Len(s) - 1) :
         s[k].token = s[k + 1].token => s[k].token \in {"LBracket", "RBracket"}

\* C17: what collapse returned holds, in source order, one instruction for
\* every [ and ] (count 0, as long as parser::ops has not resolved it) and
\* one for every maximal run of equal other symbols, unrecognized bytes
\* skipped, with the length of the run as count and the offset of its first
\* symbol; no two neighbours carry the same non-bracket symbol, and a source
\* without symbols gives the empty list.
C17_Collapse ==
    (ppc \in {"resolve", "done"}) =>
        /\ IsCollapseOf(irs, code)
        /\ (ppc = "resolve" /\ pi = 0) =>
              \A k \in 1..Len(irs) :
                  irs[k].token \in {"LBracket", "RBracket"} => irs[k].n = 0

\* collapse has returned a run of two symbols with an unrecognized byte
\* between them, and two [ side by side
C17_Witness ==
    /\ ppc = "resolve"
    /\ pi = 0
    /\ IsCollapseOf(irs, code)
    /\ \E k \in 1..Len(irs) :
         /\ irs[k].n = 2
         /\ ~IsSymbol(code[irs[k].index + 2])
    /\ \E k \in 1..(Len(irs) - 1) : irs[k].token = "LBracket" /\ irs[k + 1].token = "LBracket"

(***************************************************************************)
(* C18: an instruction of count n and n instructions of count 1            *)
(***************************************************************************)
\* the longest run that is compared with its single instructions
MaxSingles == 16

\* the state in which the instruction executed last started
Before ==
    [ip |-> last.ip, dp |-> last.dp, mem |-> last.mem, iobuf |-> last.iobuf,
     input |-> last.input, output |-> last.output, reached_eof |-> last.reached_eof,
     res |-> Err("Running", 0, 0), in_calls |-> last.in_calls,
     zero_reads |-> last.zero_reads]

\* the states one instruction of symbol t and count 1 leads to from the
\* states of S (a state that has failed stays as it is)
Single(t, cfg, S) ==
    UNION { IF s.res.kind # "Running" THEN {s}
            ELSE EvalStep(<<[t |-> t, n |-> 1]>>, cfg, [s EXCEPT !.ip = 0]) : s \in S }

\* the states n instructions of symbol t and count 1, executed one after
\* the other from the states of S, may end in (the first failure ends them)
RECURSIVE Singles(_, _, _, _)
Singles(t, n, cfg, S) ==
    IF n = 0 THEN S
    ELSE IF n = 1 THEN Single(t, cfg, S)
    ELSE Singles(t, n - (n \div 2), cfg, Singles(t, n \div 2, cfg, S))

\* C18: in a program without Read, a MoveLeft, MoveRight, Increment or
\* Decrement of count n ends as n instructions of the same symbol and count
\* 1 would: with the same data pointer and tape, or failed with an error of
\* the same kind.
C18_RunAsSingles ==
    (/\ last.valid
     /\ last.op.t \in {"Left", "Right", "Add", "Sub"}
     /\ last.op.n <= MaxSingles
     /\ \A k \in 1..Len(ops) : ops[k].t # "Read") =>
        \E u \in Singles(last.op.t, last.op.n, Cfg, {Before}) :
            IF Alive THEN u.res.kind = "Running" /\ u.dp = dp /\ u.mem = mem
            ELSE u.res.kind = res.kind

(***************************************************************************)
(* C19: the instruction pointer stays in the program                       *)
(***************************************************************************)
\* C19: while eval runs a program parser::ops returned, ip is at most
\* len(ops); a LoopClose that jumps back has a count no larger than its own
\* slot, so ip -= count does not underflow; a LoopOpen that jumps lands, by
\* ip += count, on a slot below len(ops) that holds the LoopClose closing
\* it; also when the leading loop of the source was dropped.
C19_IpInRange ==
    (ppc = "loaded") =>
        /\ ip \in 0..Len(ops)
        /\ Did("RBracket") =>
             /\ Alive
             /\ MemGet(last.mem, last.dp) \notin {None, 0} =>
                  /\ last.op.n <= last.ip
                  /\ ip = last.ip - last.op.n + 1
        /\ (Did("LBracket") /\ MemGet(last.mem, last.dp) \in {None, 0}) =>
             /\ last.ip + last.op.n < Len(ops)
             /\ ops[last.ip + last.op.n + 1].t = "RBracket"
             /\ MatchOf(ops, last.ip + 1) = last.ip + last.op.n + 1
             /\ ip = last.ip + last.op.n + 1

\* in a program whose leading loop was dropped, a LoopClose has jumped back
\* over a body of several instructions
C19_Witness ==
    /\ ppc = "loaded"
    /\ Len(ops) < Len(Resolved)
    /\ Did("RBracket")
    /\ last.op.n >= 3
    /\ MemGet(last.mem, last.dp) \notin {None, 0}
    /\ ip = last.ip - last.op.n + 1

(***************************************************************************)
(* C20: a program without loops ends                                       *)
(***************************************************************************)
LoopFree(o) == \A k \in 1..Len(o) : o[k].t \notin {"LBracket", "RBracket"}

\* C20: in a program without LoopOpen and LoopClose every instruction that
\* does not fail moves ip on by exactly 1 (and one that fails leaves it), so
\* that eval returns after at most len(ops) instructions; and the loop of a
\* Read of count n keeps its counter of remaining bytes at 0 or above: it
\* does not underflow, takes at most n bytes from the stream in at most n
\* calls that return bytes, and ends at the first call that returns none.
C20_LoopFreeTerminates ==
    (LoopFree(ops) /\ last.valid) =>
        /\ ip <= Len(ops)
        /\ Alive => ip = last.ip + 1
        /\ Failed => ip = last.ip
        /\ Did("Read") =>
             /\ res.kind # "Panic"
             /\ Len(last.input) - Len(input) <= last.op.n
             /\ (in_calls - last.in_calls) - (zero_reads - last.zero_reads) <= last.op.n
             /\ zero_reads - last.zero_reads <= 1

====
